---- MODULE Spec2Model ----
(***************************************************************************)
(* A model of payment_integration_example.js: the PaymentService class     *)
(* (token, request construction, response handling) and the page-level     *)
(* example handlers that drive it (checkout, pricing display, success      *)
(* page).  JavaScript values are tagged records [t |-> type, v |-> value]; *)
(* JSON texts are sequences of lexical tokens.  Every record constructor   *)
(* lists its fields in the order TLC keeps them (the order in which the    *)
(* field names first appear in this module), so that a record is in        *)
(* normal form as built and evaluation by several workers never reorders   *)
(* a record another worker is reading.                                     *)
(***************************************************************************)
EXTENDS Integers, Sequences, FiniteSets, TLC

VARIABLES
    authToken,      \* PaymentService.authToken (a JavaScript value)
    setCalled,      \* history: setAuthToken has been called on the service
    nCalls,         \* number of asynchronous operations started so far
    inflight,       \* the operations whose promise is still pending
    last,           \* the operation that settled most recently
    localStorage    \* window.localStorage: key -> string

vars == <<authToken, setCalled, nCalls, inflight, last, localStorage>>

(***************************************************************************)
(* Bounds of the model.                                                    *)
(***************************************************************************)
MaxCalls == 2

(***************************************************************************)
(* JavaScript values.                                                      *)
(***************************************************************************)
Undefined == [t |-> "undefined", v |-> "undefined"]
Null == [t |-> "null", v |-> "null"]
Bool(b) == [t |-> "boolean", v |-> IF b THEN "true" ELSE "false"]
Num(n) == [t |-> "number", v |-> n]
Str(s) == [t |-> "string", v |-> s]
Obj(f) == [t |-> "object", v |-> f]
Arr(s) == [t |-> "array", v |-> s]

EmptyObject == [k \in {} |-> Undefined]

\* ToBoolean: the test of `if (x)`.
Truthy(x) ==
    CASE x.t = "undefined" -> FALSE
      [] x.t = "null" -> FALSE
      [] x.t = "boolean" -> x.v = "true"
      [] x.t = "number" -> x.v # 0
      [] x.t = "string" -> x.v # ""
      [] x.t = "object" -> TRUE
      [] x.t = "array" -> TRUE

Digit(d) ==
    CASE d = 0 -> "0" [] d = 1 -> "1" [] d = 2 -> "2" [] d = 3 -> "3"
      [] d = 4 -> "4" [] d = 5 -> "5" [] d = 6 -> "6" [] d = 7 -> "7"
      [] d = 8 -> "8" [] d = 9 -> "9"

RECURSIVE NatToString(_)
NatToString(n) ==
    IF n < 10 THEN Digit(n) ELSE NatToString(n \div 10) \o Digit(n % 10)

\* Number to string, as a template literal or String() prints an integer.
IntToString(n) == IF n < 0 THEN "-" \o NatToString(-n) ELSE NatToString(n)

RECURSIVE JoinStrings(_, _)
JoinStrings(s, sep) ==
    IF s = <<>> THEN ""
    ELSE IF Len(s) = 1 THEN s[1]
    ELSE s[1] \o sep \o JoinStrings(Tail(s), sep)

\* JSToString: `${x}`, String(x), and the conversion localStorage.setItem
\* applies to its value argument.
RECURSIVE JSToString(_)
JSToString(x) ==
    CASE x.t = "undefined" -> "undefined"
      [] x.t = "null" -> "null"
      [] x.t = "boolean" -> x.v
      [] x.t = "number" -> IntToString(x.v)
      [] x.t = "string" -> x.v
      [] x.t = "object" -> "[object Object]"
      [] x.t = "array" ->
            JoinStrings([i \in DOMAIN x.v |->
                            IF x.v[i].t \in {"undefined", "null"} THEN ""
                            ELSE JSToString(x.v[i])], ",")

\* x.k throws a TypeError when x is null or undefined.
PropThrows(x) == x.t \in {"undefined", "null"}

\* x.k for the data properties a JSON value can have (no prototype methods).
GetProp(x, k) ==
    IF x.t = "object" /\ k \in DOMAIN x.v THEN x.v[k] ELSE Undefined

(***************************************************************************)
(* JSON texts: sequences of tokens.                                        *)
(***************************************************************************)
P(s) == [s |-> s, k |-> "punct"]
TStr(s) == [s |-> s, k |-> "string"]
TNum(n) == [n |-> n, s |-> IntToString(n), k |-> "number"]
TLit(s) == [s |-> s, k |-> "lit"]
TJunk(s) == [s |-> s, k |-> "junk"]

IsTok(tok, kind, text) == tok.k = kind /\ tok.s = text

ParseFail == [ok |-> FALSE, val |-> Undefined, rest |-> <<>>]
ParseOk(v, r) == [ok |-> TRUE, val |-> v, rest |-> r]

LitValue(s) ==
    CASE s = "true" -> Bool(TRUE)
      [] s = "false" -> Bool(FALSE)
      [] s = "null" -> Null

\* Defining the property k of an object literal: a repeated key keeps the
\* last value.
PutProp(f, k, v) ==
    [x \in DOMAIN f \cup {k} |-> IF x = k THEN v ELSE f[x]]

RECURSIVE ParseValue(_), ParseMembers(_, _), ParseElements(_, _)

\* value := string | number | true | false | null | object | array
ParseValue(s) ==
    IF s = <<>> THEN ParseFail
    ELSE LET h == Head(s)
             r == Tail(s)
         IN  CASE h.k = "string" -> ParseOk(Str(h.s), r)
               [] h.k = "number" -> ParseOk(Num(h.n), r)
               [] h.k = "lit" -> ParseOk(LitValue(h.s), r)
               [] IsTok(h, "punct", "{") ->
                     IF r # <<>> /\ IsTok(Head(r), "punct", "}")
                     THEN ParseOk(Obj(EmptyObject), Tail(r))
                     ELSE ParseMembers(r, EmptyObject)
               [] IsTok(h, "punct", "[") ->
                     IF r # <<>> /\ IsTok(Head(r), "punct", "]")
                     THEN ParseOk(Arr(<<>>), Tail(r))
                     ELSE ParseElements(r, <<>>)
               [] OTHER -> ParseFail

\* members := string ":" value ( "," members | "}" )
ParseMembers(s, acc) ==
    IF Len(s) < 3 \/ s[1].k # "string" \/ ~IsTok(s[2], "punct", ":")
    THEN ParseFail
    ELSE LET pv == ParseValue(SubSeq(s, 3, Len(s)))
         IN  IF ~pv.ok \/ pv.rest = <<>> THEN ParseFail
             ELSE LET acc2 == PutProp(acc, s[1].s, pv.val)
                      sep == Head(pv.rest)
                  IN  IF IsTok(sep, "punct", "}")
                      THEN ParseOk(Obj(acc2), Tail(pv.rest))
                      ELSE IF IsTok(sep, "punct", ",")
                      THEN ParseMembers(Tail(pv.rest), acc2)
                      ELSE ParseFail

\* elements := value ( "," elements | "]" )
ParseElements(s, acc) ==
    LET pv == ParseValue(s)
    IN  IF ~pv.ok \/ pv.rest = <<>> THEN ParseFail
        ELSE LET acc2 == Append(acc, pv.val)
                 sep == Head(pv.rest)
             IN  IF IsTok(sep, "punct", "]")
                 THEN ParseOk(Arr(acc2), Tail(pv.rest))
                 ELSE IF IsTok(sep, "punct", ",")
                 THEN ParseElements(Tail(pv.rest), acc2)
                 ELSE ParseFail

\* JSON.parse of a whole text, as response.json() applies it to the body:
\* the value, or a SyntaxError.
JSONParse(s) ==
    LET pv == ParseValue(s)
    IN  IF pv.ok /\ pv.rest = <<>>
        THEN [ok |-> TRUE, val |-> pv.val]
        ELSE [ok |-> FALSE, val |-> Undefined]

RECURSIVE JSONStringify(_), StringifyMembers(_, _, _), StringifyElements(_, _)

\* JSON.stringify(x), for a value that is not undefined.
JSONStringify(x) ==
    CASE x.t = "string" -> <<TStr(x.v)>>
      [] x.t = "number" -> <<TNum(x.v)>>
      [] x.t = "boolean" -> <<TLit(x.v)>>
      [] x.t = "null" -> <<TLit("null")>>
      [] x.t = "object" ->
            <<P("{")>>
              \o StringifyMembers(x.v,
                    {k \in DOMAIN x.v : x.v[k].t # "undefined"}, TRUE)
              \o <<P("}")>>
      [] x.t = "array" ->
            <<P("[")>> \o StringifyElements(x.v, TRUE) \o <<P("]")>>

\* The members of an object: a property whose value is undefined is omitted.
StringifyMembers(f, keys, first) ==
    IF keys = {} THEN <<>>
    ELSE LET k == CHOOSE x \in keys : TRUE
         IN  (IF first THEN <<>> ELSE <<P(",")>>)
               \o <<TStr(k), P(":")>> \o JSONStringify(f[k])
               \o StringifyMembers(f, keys \ {k}, FALSE)

\* The elements of an array: an undefined element is written null.
StringifyElements(s, first) ==
    IF s = <<>> THEN <<>>
    ELSE (IF first THEN <<>> ELSE <<P(",")>>)
           \o (IF Head(s).t = "undefined" THEN <<TLit("null")>>
               ELSE JSONStringify(Head(s)))
           \o StringifyElements(Tail(s), FALSE)

(***************************************************************************)
(* Inputs: what the application passes in and what the server sends back.  *)
(***************************************************************************)
\* Arguments of `new PaymentService(apiBaseUrl, authToken)` and setAuthToken.
CtorTokens == {Null, Str("tokA")}
TokenArgs == {Str(""), Str("tokA"), Str("tokB")}

\* Option bundles a direct caller of makeAuthenticatedRequest passes.
OptionBundles ==
    { EmptyObject,
      ("method" :> "PUT") @@ ("headers" :> ("Authorization" :> "Basic abc")),
      ("headers" :> ("Content-Type" :> "text/plain")) }

Plans == {Str("pro"), Str("basic")}
Amounts == {Num(100)}
Days == {Num(30)}

\* window.location.search, as the name/value pairs URLSearchParams sees.
Searches ==
    { <<>>,
      <<<<"ref", "mail">>>>,
      <<<<"session_id", "">>>>,
      <<<<"session_id", "cs_1">>>> }

Statuses == {200, 299, 300, 500}

\* { success, checkout_url, session_id }
Checkout(success, id) ==
    Obj(("success" :> success)
          @@ ("checkout_url" :> Str("https://pay.example/" \o id))
          @@ ("session_id" :> Str(id)))

PricingPlans ==
    Obj(("success" :> Bool(TRUE))
          @@ ("plans" :>
                Obj(("subscriptions" :>
                       Obj("pro" :>
                             Obj(("name" :> Str("Pro"))
                                   @@ ("price" :> Num(20))
                                   @@ ("credits_per_month" :> Num(-1))
                                   @@ ("features" :>
                                         Arr(<<Str("drafts"), Str("export")>>)))))
                      @@ ("credits" :>
                            Obj("100" :>
                                  Obj(("bonus" :> Num(20))
                                        @@ ("price" :> Num(10))))))))

\* The JSON values the server sends.
ServerValues ==
    << Null,
       Obj("success" :> Bool(FALSE)),
       Obj(("success" :> Bool(TRUE)) @@ ("total_credits" :> Num(120))),
       Checkout(Bool(TRUE), "cs_1"),
       Checkout(Bool(TRUE), "cs_2"),
       Checkout(Num(1), "cs_2"),
       Obj(("success" :> Bool(TRUE)) @@ ("tier" :> Str("free"))
             @@ ("credits" :> Num(-1))),
       PricingPlans,
       Obj(("success" :> Bool(TRUE))
             @@ ("plans" :> Obj("subscriptions" :> Obj(EmptyObject)))) >>

\* Response bodies that are no JSON text: empty (as with 204 No Content), an
\* HTML error page, a truncated object.
MalformedBodies ==
    { <<>>,
      <<TJunk("<html>")>>,
      <<P("{"), TStr("success"), P(":"), TLit("true")>> }

Bodies ==
    {JSONStringify(ServerValues[i]) : i \in DOMAIN ServerValues}
      \cup MalformedBodies

(***************************************************************************)
(* PaymentService.                                                         *)
(***************************************************************************)
apiBaseUrl == "http://localhost:8000"

\* { ...a, ...b }: the properties of b override those of a.
Spread(a, b) ==
    [k \in DOMAIN a \cup DOMAIN b |-> IF k \in DOMAIN b THEN b[k] ELSE a[k]]

\* ...options.headers (spreading undefined adds nothing).
OptionHeaders(options) ==
    IF "headers" \in DOMAIN options THEN options["headers"] ELSE EmptyObject

\* BuildHeaders with the caller's headers spread last: they would override
\* the Authorization header too.
BuildHeadersCallerLast(tok, options) ==
    LET headers == "Content-Type" :> "application/json"
    IN  IF Truthy(tok)
        THEN Spread(Spread(headers,
                           "Authorization" :> ("Bearer " \o JSToString(tok))),
                    OptionHeaders(options))
        ELSE Spread(headers, OptionHeaders(options))

\* BuildHeaders without the `if (this.authToken)` guard.
BuildHeadersUnguarded(tok, options) ==
    Spread(Spread("Content-Type" :> "application/json",
                  OptionHeaders(options)),
           "Authorization" :> ("Bearer " \o JSToString(tok)))

\* BuildHeaders without the Content-Type default.
BuildHeadersNoDefault(tok, options) ==
    IF Truthy(tok)
    THEN Spread(OptionHeaders(options),
                "Authorization" :> ("Bearer " \o JSToString(tok)))
    ELSE OptionHeaders(options)

\* The headers object makeAuthenticatedRequest builds.
BuildHeaders(tok, options) ==
    LET headers == Spread("Content-Type" :> "application/json",
                          OptionHeaders(options))
    IN  IF Truthy(tok)
        THEN Spread(headers, "Authorization" :> ("Bearer " \o JSToString(tok)))
        ELSE headers

\* The request fetch(input, init) dispatches; GET and no body by default.
Fetch(input, init) ==
    [headers |-> init["headers"],
     url |-> input,
     method |-> IF "method" \in DOMAIN init THEN init["method"] ELSE "GET",
     body |-> IF "body" \in DOMAIN init THEN init["body"] ELSE <<>>]

\* makeAuthenticatedRequest up to its await: the request it dispatches when
\* the stored token is tok.
makeAuthenticatedRequest(tok, url, options) ==
    Fetch(apiBaseUrl \o url,
          Spread(options, "headers" :> BuildHeaders(tok, options)))

\* this.makeAuthenticatedRequest(url, options), as a wrapper calls it.
Call(url, options) == [options |-> options, url |-> url]

getPricingPlans == Call("/pricing/plans", EmptyObject)

createSubscription(plan) ==
    Call("/subscriptions/create",
         ("method" :> "POST")
           @@ ("body" :> JSONStringify(Obj("plan" :> plan))))

purchaseCredits(amount) ==
    Call("/credits/purchase",
         ("method" :> "POST")
           @@ ("body" :> JSONStringify(Obj("amount" :> amount))))

getSubscriptionStatus == Call("/subscriptions/status", EmptyObject)

getUserAnalytics(days) ==
    Call("/users/analytics?days=" \o JSToString(days), EmptyObject)

\* response.ok taken to mean "not an error status".
ResponseOkBelow400(status) == status < 400

\* response.ok
ResponseOk(status) == status \in 200..299

Fulfilled(v) == [state |-> "fulfilled", value |-> v]
Rejected(name, message) ==
    [state |-> "rejected", value |-> [name |-> name, message |-> message]]

\* fetch itself rejected: no response at all.
TransportError == Rejected("TypeError", "Failed to fetch")

\* makeAuthenticatedRequest after fetch resolved with a response that is not
\* ok: it throws without reading the body.
HttpError(status) ==
    Rejected("Error", "HTTP error! status: " \o IntToString(status))

\* makeAuthenticatedRequest calling response.json() without returning it.
JsonOutcomeNotReturned(body) == Fulfilled(Undefined)

\* makeAuthenticatedRequest after response.json() settled on the body.
JsonOutcome(body) ==
    LET p == JSONParse(body)
    IN  IF p.ok THEN Fulfilled(p.val)
        ELSE Rejected("SyntaxError", "Unexpected token in JSON")

(***************************************************************************)
(* The example page: effects on the browser and the handlers' bodies.      *)
(* A handler body yields [effects, storage, thrown]: the browser calls it  *)
(* made in order, window.localStorage afterwards, and whether an exception *)
(* left the try block.                                                     *)
(***************************************************************************)
SessionKey == "stripe_session_id"

Effect(op, arg) == [op |-> op, arg |-> arg]

\* setItem guarded by "no session stored yet": the first writer would win.
SetItemIfAbsent(storage, key, value) ==
    IF key \in DOMAIN storage THEN storage
    ELSE [k \in DOMAIN storage \cup {key} |->
             IF k = key THEN JSToString(value) ELSE storage[k]]

\* localStorage.setItem(key, value): the value is stored as a string.
SetItem(storage, key, value) ==
    [k \in DOMAIN storage \cup {key} |->
        IF k = key THEN JSToString(value) ELSE storage[k]]

\* localStorage.removeItem(key)
RemoveItem(storage, key) == [k \in DOMAIN storage \ {key} |-> storage[k]]

\* window.open(url, '_blank'): an undefined url is the empty url.
WindowOpen(url) ==
    Effect("window.open", IF url.t = "undefined" THEN "" ELSE JSToString(url))

Body(effects, storage, thrown) ==
    [storage |-> storage, effects |-> effects, thrown |-> thrown]

\* a === -1 ? 'Unlimited' : a
UnlimitedOr(a) ==
    IF a.t = "number" /\ a.v = -1 THEN "Unlimited" ELSE JSToString(a)

\* A try block whose catch rethrows: the async function rejects.
TryCatchRethrow(body, handler) ==
    [state |-> IF body.thrown THEN "rejected" ELSE "fulfilled",
     storage |-> body.storage,
     effects |-> IF body.thrown THEN body.effects \o handler ELSE body.effects]

\* try { body } catch (error) { handler }: the handler's effects follow the
\* body's when it threw; the async function then returns normally.
TryCatch(body, handler) ==
    [state |-> "fulfilled",
     storage |-> body.storage,
     effects |-> IF body.thrown THEN body.effects \o handler ELSE body.effects]

\* handleSubscriptionPurchase testing `response.success === true`.
SubscriptionPurchaseBodyStrict(o, storage) ==
    IF o.state = "rejected" \/ PropThrows(o.value)
    THEN [storage |-> storage, effects |-> <<>>, thrown |-> TRUE]
    ELSE IF GetProp(o.value, "success").t = "boolean"
              /\ GetProp(o.value, "success").v = "true"
    THEN [storage |-> SetItem(storage, SessionKey,
                              GetProp(o.value, "session_id")),
          effects |-> <<WindowOpen(GetProp(o.value, "checkout_url")),
                        Effect("localStorage.setItem",
                               JSToString(GetProp(o.value, "session_id")))>>,
          thrown |-> FALSE]
    ELSE [storage |-> storage, effects |-> <<>>, thrown |-> FALSE]

\* The try block of handleSubscriptionPurchase, from the await on.
SubscriptionPurchaseBody(o, storage) ==
    IF o.state = "rejected" \/ PropThrows(o.value)
    THEN Body(<<>>, storage, TRUE)
    ELSE IF Truthy(GetProp(o.value, "success"))
    THEN Body(<<WindowOpen(GetProp(o.value, "checkout_url")),
                Effect("localStorage.setItem",
                       JSToString(GetProp(o.value, "session_id")))>>,
              SetItem(storage, SessionKey, GetProp(o.value, "session_id")),
              FALSE)
    ELSE Body(<<>>, storage, FALSE)

handleSubscriptionPurchaseResume(o, storage) ==
    TryCatch(SubscriptionPurchaseBody(o, storage),
             <<Effect("console.error", "Subscription purchase failed:"),
               Effect("alert",
                 "Failed to create subscription checkout. Please try again.")>>)

\* The try block of handleCreditPurchase, from the await on.
CreditPurchaseBody(o, storage) ==
    IF o.state = "rejected" \/ PropThrows(o.value)
    THEN Body(<<>>, storage, TRUE)
    ELSE IF Truthy(GetProp(o.value, "success"))
    THEN Body(<<WindowOpen(GetProp(o.value, "checkout_url")),
                Effect("alert",
                       "You'll receive "
                         \o JSToString(GetProp(o.value, "total_credits"))
                         \o " credits after payment!"),
                Effect("localStorage.setItem",
                       JSToString(GetProp(o.value, "session_id")))>>,
              SetItem(storage, SessionKey, GetProp(o.value, "session_id")),
              FALSE)
    ELSE Body(<<>>, storage, FALSE)

handleCreditPurchaseResume(o, storage) ==
    TryCatch(CreditPurchaseBody(o, storage),
             <<Effect("console.error", "Credit purchase failed:"),
               Effect("alert",
                 "Failed to create credit purchase checkout. Please try again.")>>)

\* Object.entries(x) of a parsed JSON value, as <<key, value>> pairs.  The
\* model's objects do not record insertion order: the keys come in a fixed
\* arbitrary order.
RECURSIVE EntriesOf(_, _)
EntriesOf(f, keys) ==
    IF keys = {} THEN <<>>
    ELSE LET k == CHOOSE x \in keys : TRUE
         IN  <<<<k, f[k]>>>> \o EntriesOf(f, keys \ {k})

ObjectEntries(x) ==
    CASE x.t = "object" -> EntriesOf(x.v, DOMAIN x.v)
      [] x.t = "array" -> [i \in DOMAIN x.v |-> <<IntToString(i - 1), x.v[i]>>]
      [] x.t \in {"number", "boolean"} -> <<>>
      [] x.t = "string" /\ x.v = "" -> <<>>

\* parseInt of the credit-package keys the model's responses use.
ParseInt(s) ==
    CASE s = "100" -> 100
      [] s = "500" -> 500

\* One iteration of the subscriptions forEach: its console.log calls, up to
\* the first exception.
SubscriptionPlanLogs(plan) ==
    IF PropThrows(plan) THEN [effects |-> <<>>, thrown |-> TRUE]
    ELSE LET head ==
               <<Effect("console.log",
                        JSToString(GetProp(plan, "name")) \o ": $"
                          \o JSToString(GetProp(plan, "price")) \o "/month"),
                 Effect("console.log",
                        "- " \o UnlimitedOr(GetProp(plan, "credits_per_month"))
                          \o " credits per month")>>
             features == GetProp(plan, "features")
         IN  IF features.t # "array"
             THEN [effects |-> head, thrown |-> TRUE]
             ELSE [effects |-> head \o
                     <<Effect("console.log",
                              "- Features: " \o
                                JoinStrings([i \in DOMAIN features.v |->
                                    IF features.v[i].t \in {"undefined", "null"}
                                    THEN "" ELSE JSToString(features.v[i])],
                                  ", ")),
                       Effect("console.log", "")>>,
                   thrown |-> FALSE]

\* One iteration of the credits forEach, for a config.bonus that is a number.
CreditPackageLogs(amount, config) ==
    IF PropThrows(config) THEN [effects |-> <<>>, thrown |-> TRUE]
    ELSE CASE GetProp(config, "bonus").t = "number" ->
         [effects |->
            <<Effect("console.log",
                     amount \o " credits (+"
                       \o JSToString(GetProp(config, "bonus")) \o " bonus): $"
                       \o JSToString(GetProp(config, "price"))),
              Effect("console.log",
                     "Total: "
                       \o IntToString(ParseInt(amount)
                                        + GetProp(config, "bonus").v)
                       \o " credits"),
              Effect("console.log", "")>>,
          thrown |-> FALSE]

\* entries.forEach(f): the iterations' effects in order, until one throws.
RECURSIVE ForEach(_, _)
ForEach(logs, acc) ==
    IF logs = <<>> \/ acc.thrown THEN acc
    ELSE ForEach(Tail(logs),
                 [effects |-> acc.effects \o Head(logs).effects,
                  thrown |-> Head(logs).thrown])

NoLogs == [effects |-> <<>>, thrown |-> FALSE]

\* The try block of displayPricingPlans, from the await on.
PricingPlansBody(o, storage) ==
    IF o.state = "rejected" \/ PropThrows(o.value)
    THEN Body(<<>>, storage, TRUE)
    ELSE IF ~Truthy(GetProp(o.value, "success"))
    THEN Body(<<>>, storage, FALSE)
    ELSE LET plans == GetProp(o.value, "plans")
             h1 == <<Effect("console.log", "Subscription Plans:")>>
         IN  IF PropThrows(plans) \/ PropThrows(GetProp(plans, "subscriptions"))
             THEN Body(h1, storage, TRUE)
             ELSE LET subs == ObjectEntries(GetProp(plans, "subscriptions"))
                      l1 == ForEach([i \in DOMAIN subs |->
                                        SubscriptionPlanLogs(subs[i][2])],
                                    NoLogs)
                      h2 == h1 \o l1.effects
                             \o <<Effect("console.log", "Credit Packages:")>>
                  IN  IF l1.thrown
                      THEN Body(h1 \o l1.effects, storage, TRUE)
                      ELSE IF PropThrows(GetProp(plans, "credits"))
                      THEN Body(h2, storage, TRUE)
                      ELSE LET creds ==
                                 ObjectEntries(GetProp(plans, "credits"))
                               l2 == ForEach([i \in DOMAIN creds |->
                                        CreditPackageLogs(creds[i][1],
                                                          creds[i][2])],
                                      NoLogs)
                           IN  Body(h2 \o l2.effects, storage, l2.thrown)

displayPricingPlansResume(o, storage) ==
    TryCatch(PricingPlansBody(o, storage),
             <<Effect("console.error", "Failed to load pricing plans:")>>)

\* updateUserInterface(userStatus): its console.log calls, or an exception.
updateUserInterface(userStatus) ==
    IF PropThrows(userStatus) THEN [effects |-> <<>>, thrown |-> TRUE]
    ELSE IF Truthy(GetProp(userStatus, "success"))
    THEN [effects |->
            <<Effect("console.log",
                     "User tier: " \o JSToString(GetProp(userStatus, "tier"))),
              Effect("console.log",
                     "Available credits: "
                       \o UnlimitedOr(GetProp(userStatus, "credits")))>>,
          thrown |-> FALSE]
    ELSE NoLogs

\* URLSearchParams.get(name): the first value under the name, or null.
RECURSIVE SearchParamsGet(_, _)
SearchParamsGet(search, name) ==
    IF search = <<>> THEN Null
    ELSE IF Head(search)[1] = name THEN Str(Head(search)[2])
    ELSE SearchParamsGet(Tail(search), name)

\* handlePaymentSuccess clearing the stored session in a finally block.
PaymentSuccessBodyAlwaysClears(o, storage) ==
    IF o.state = "rejected"
    THEN [storage |-> RemoveItem(storage, SessionKey),
          effects |-> <<Effect("localStorage.removeItem", SessionKey)>>,
          thrown |-> TRUE]
    ELSE LET h == <<Effect("console.log", "Updated user status:")>>
             ui == updateUserInterface(o.value)
         IN  [storage |-> RemoveItem(storage, SessionKey),
              effects |-> h \o ui.effects
                            \o <<Effect("localStorage.removeItem", SessionKey)>>,
              thrown |-> ui.thrown]

\* The try block of handlePaymentSuccess, from the await on.
PaymentSuccessBody(o, storage) ==
    IF o.state = "rejected" THEN Body(<<>>, storage, TRUE)
    ELSE LET h == <<Effect("console.log", "Updated user status:")>>
             ui == updateUserInterface(o.value)
         IN  IF ui.thrown THEN Body(h \o ui.effects, storage, TRUE)
             ELSE Body(h \o ui.effects
                         \o <<Effect("localStorage.removeItem", SessionKey)>>,
                       RemoveItem(storage, SessionKey), FALSE)

handlePaymentSuccessResume(o, storage) ==
    TryCatch(PaymentSuccessBody(o, storage),
             <<Effect("console.error", "Failed to get updated user status:")>>)

(***************************************************************************)
(* The state machine.  An operation in flight is a record                  *)
(*   [id, kind, arg, ph, options, req, status]:                            *)
(* who awaits it (kind: the application itself, "caller", or an example    *)
(* handler), the handler's argument, and where it is suspended: at         *)
(* `await fetch(...)` (ph = "fetch", with the options passed to            *)
(* makeAuthenticatedRequest and the request it put on the wire) or at      *)
(* the promise of response.json() (ph = "json", with the status of the     *)
(* response received; the request is no longer on the wire).               *)
(***************************************************************************)
\* The req field of an operation whose response has been received.
NoRequest == [headers |-> EmptyObject,
              url |-> "",
              method |-> "",
              body |-> <<>>]

Handlers ==
    {"handleSubscriptionPurchase", "handleCreditPurchase",
     "displayPricingPlans", "handlePaymentSuccess"}

NoOutcome == Fulfilled(Undefined)

NoLast ==
    [kind |-> "none",
     id |-> 0,
     body |-> <<>>,
     status |-> 0,
     state |-> "fulfilled",
     arg |-> Undefined,
     effects |-> <<>>,
     requested |-> FALSE,
     jsonInvoked |-> FALSE,
     outcome |-> NoOutcome,
     storageBefore |-> EmptyObject]

\* `new PaymentService(apiBaseUrl, authToken)` with any token argument.
Init ==
    /\ authToken \in CtorTokens
    /\ setCalled = FALSE
    /\ nCalls = 0
    /\ inflight = {}
    /\ last = NoLast
    /\ localStorage = EmptyObject

\* `const paymentService = new PaymentService()` of the example page.
InitPage ==
    /\ authToken = Null
    /\ setCalled = FALSE
    /\ nCalls = 0
    /\ inflight = {}
    /\ last = NoLast
    /\ localStorage \in {EmptyObject, SessionKey :> "cs_0"}

\* setAuthToken if the headers of pending requests were built from the
\* token lazily: it would re-stamp the requests on the wire.
setAuthTokenRestamps(token) ==
    /\ authToken' = token
    /\ setCalled' = TRUE
    /\ inflight' =
          {[c EXCEPT !.req = IF c.ph = "fetch"
                                THEN [c.req EXCEPT !.headers =
                                        BuildHeaders(token, c.options)]
                                ELSE c.req] : c \in inflight}
    /\ UNCHANGED <<nCalls, last, localStorage>>

setAuthToken(token) ==
    /\ authToken' = token
    /\ setCalled' = TRUE
    /\ UNCHANGED <<nCalls, inflight, last, localStorage>>

\* An async function runs to its first await: the request is built from the
\* token stored now and dispatched in the same step.
Start(kind, arg, call) ==
    /\ nCalls < MaxCalls
    /\ nCalls' = nCalls + 1
    /\ inflight' = inflight \cup
          {[kind |-> kind,
            id |-> nCalls + 1,
            options |-> call.options,
            status |-> 0,
            arg |-> arg,
            req |-> makeAuthenticatedRequest(authToken, call.url,
                                             call.options),
            ph |-> "fetch"]}
    /\ UNCHANGED <<authToken, setCalled, last, localStorage>>

CallMakeAuthenticatedRequest(url, options) ==
    Start("caller", Undefined, Call(url, options))

CallGetPricingPlans == Start("caller", Undefined, getPricingPlans)

CallCreateSubscription(plan) ==
    Start("caller", Undefined, createSubscription(plan))

CallPurchaseCredits(amount) ==
    Start("caller", Undefined, purchaseCredits(amount))

CallGetSubscriptionStatus == Start("caller", Undefined, getSubscriptionStatus)

CallGetUserAnalytics(days) == Start("caller", Undefined, getUserAnalytics(days))

handleSubscriptionPurchase(plan) ==
    Start("handleSubscriptionPurchase", plan, createSubscription(plan))

handleCreditPurchase(amount) ==
    Start("handleCreditPurchase", amount, purchaseCredits(amount))

displayPricingPlans == Start("displayPricingPlans", Undefined, getPricingPlans)

\* The continuation that runs when makeAuthenticatedRequest settles with o.
Resume(kind, o, storage) ==
    CASE kind = "caller" ->
            [state |-> o.state, storage |-> storage, effects |-> <<>>]
      [] kind = "handleSubscriptionPurchase" ->
            handleSubscriptionPurchaseResume(o, storage)
      [] kind = "handleCreditPurchase" ->
            handleCreditPurchaseResume(o, storage)
      [] kind = "displayPricingPlans" ->
            displayPricingPlansResume(o, storage)
      [] kind = "handlePaymentSuccess" ->
            handlePaymentSuccessResume(o, storage)

\* The operation c settles: makeAuthenticatedRequest with o, then whoever
\* awaited it runs to its end.
Settle(c, status, body, jsonInvoked, o) ==
    LET r == Resume(c.kind, o, localStorage)
    IN  /\ inflight' = inflight \ {c}
        /\ last' = [kind |-> c.kind,
                    id |-> c.id,
                    body |-> body,
                    status |-> status,
                    state |-> r.state,
                    arg |-> c.arg,
                    effects |-> r.effects,
                    requested |-> TRUE,
                    jsonInvoked |-> jsonInvoked,
                    outcome |-> o,
                    storageBefore |-> localStorage]
        /\ localStorage' = r.storage
        /\ UNCHANGED <<authToken, setCalled, nCalls>>

\* handlePaymentSuccess: without a truthy session_id parameter it returns at
\* once; with one it awaits getSubscriptionStatus().
handlePaymentSuccess(search) ==
    LET sessionId == SearchParamsGet(search, "session_id")
    IN  IF Truthy(sessionId)
        THEN Start("handlePaymentSuccess", sessionId, getSubscriptionStatus)
        ELSE /\ nCalls < MaxCalls
             /\ nCalls' = nCalls + 1
             /\ last' = [NoLast EXCEPT !.id = nCalls + 1,
                                       !.kind = "handlePaymentSuccess",
                                       !.arg = sessionId,
                                       !.storageBefore = localStorage]
             /\ UNCHANGED <<authToken, setCalled, inflight, localStorage>>

\* fetch rejects: the request never got a response.
FetchRejects(c) ==
    /\ c.ph = "fetch"
    /\ Settle(c, 0, <<>>, FALSE, TransportError)

\* fetch resolves with a response: not ok, makeAuthenticatedRequest throws;
\* ok, it calls response.json() and waits for the body.
FetchResolves(c, status) ==
    /\ c.ph = "fetch"
    /\ IF ResponseOk(status)
       THEN /\ inflight' = (inflight \ {c}) \cup
                              {[c EXCEPT !.ph = "json",
                                         !.options = EmptyObject,
                                         !.req = NoRequest,
                                         !.status = status]}
            /\ UNCHANGED <<authToken, setCalled, nCalls, last, localStorage>>
       ELSE Settle(c, status, <<>>, FALSE, HttpError(status))

\* JsonOutcome of each body the server may send, computed once.
JsonOutcomes == [body \in Bodies |-> JsonOutcome(body)]

\* response.json() settles on the body received.
JsonSettles(c, body) ==
    /\ c.ph = "json"
    /\ Settle(c, c.status, body, TRUE, JsonOutcomes[body])

\* The PaymentService class under any caller.
Next ==
    \/ \E token \in TokenArgs : setAuthToken(token)
    \/ \E options \in OptionBundles :
          CallMakeAuthenticatedRequest("/health", options)
    \/ CallGetPricingPlans
    \/ \E plan \in Plans : CallCreateSubscription(plan)
    \/ \E amount \in Amounts : CallPurchaseCredits(amount)
    \/ CallGetSubscriptionStatus
    \/ \E days \in Days : CallGetUserAnalytics(days)
    \/ \E c \in inflight : FetchRejects(c)
    \/ \E c \in inflight : \E status \in Statuses : FetchResolves(c, status)
    \/ \E c \in inflight : \E body \in Bodies : JsonSettles(c, body)

Spec == Init /\ [][Next]_vars

\* The example page: its handlers on the page's paymentService, whose
\* setAuthToken call is commented out in the source.
NextPage ==
    \/ \E plan \in Plans : handleSubscriptionPurchase(plan)
    \/ \E amount \in Amounts : handleCreditPurchase(amount)
    \/ displayPricingPlans
    \/ \E search \in Searches : handlePaymentSuccess(search)
    \/ \E c \in inflight : FetchRejects(c)
    \/ \E c \in inflight : \E status \in Statuses : FetchResolves(c, status)
    \/ \E c \in inflight : \E body \in Bodies : JsonSettles(c, body)

SpecPage == InitPage /\ [][NextPage]_vars

(***************************************************************************)
(* Properties.                                                             *)
(***************************************************************************)
\* The requests on the wire.
OnWire == {c \in inflight : c.ph = "fetch"}

\* The Authorization header of a request is exactly what the caller passed
\* in options.headers: the same value, or none.
CallersAuthorization(c) ==
    IF "Authorization" \in DOMAIN OptionHeaders(c.options)
    THEN /\ "Authorization" \in DOMAIN c.req.headers
         /\ c.req.headers["Authorization"]
              = OptionHeaders(c.options)["Authorization"]
    ELSE "Authorization" \notin DOMAIN c.req.headers

\* C1: a request dispatched while the token stored by setAuthToken(t), t a
\* non-empty string, is still in place carries Authorization: Bearer t,
\* whatever headers the caller passed.
C1_BearerAfterSetAuthToken ==
    [][\A c \in inflight' \ inflight :
          (c.ph = "fetch" /\ setCalled /\ authToken.t = "string"
             /\ authToken.v # "")
            => /\ "Authorization" \in DOMAIN c.req.headers
               /\ c.req.headers["Authorization"] = "Bearer " \o authToken.v
      ]_vars

\* C1 witness: after setAuthToken("tokB"), a request whose caller passed an
\* Authorization header of its own is on the wire with Bearer tokB.
C1_Witness ==
    /\ setCalled
    /\ authToken = Str("tokB")
    /\ \E c \in OnWire :
          /\ "Authorization" \in DOMAIN OptionHeaders(c.options)
          /\ c.req.headers["Authorization"] = "Bearer tokB"

\* C2 as stated: while setAuthToken has never been called, no request on the
\* wire has an Authorization header.
C2_NeverSetNoAuthorization ==
    \A c \in OnWire : ~setCalled => "Authorization" \notin DOMAIN c.req.headers

\* C2 amended: on a service constructed without a token and on which
\* setAuthToken has never been called, a request has no Authorization header
\* unless the caller's options.headers holds one, which is sent as given.
C2_NoTokenNoAuthorization ==
    \A c \in OnWire :
        (~setCalled /\ authToken = Null) => CallersAuthorization(c)

\* C2 witness: no token, never set, and a request with caller headers but
\* no Authorization among them is on the wire without one.
C2_Witness ==
    /\ ~setCalled
    /\ authToken = Null
    /\ \E c \in OnWire :
          /\ "Content-Type" \in DOMAIN OptionHeaders(c.options)
          /\ "Authorization" \notin DOMAIN c.req.headers

\* C3: a response whose status is outside [200,299] makes
\* makeAuthenticatedRequest reject with an error that carries the status,
\* and response.json() is not called on it.
C3_NonSuccessRejects ==
    (last.requested /\ last.status # 0 /\ last.status \notin 200..299)
      => /\ last.outcome.state = "rejected"
         /\ last.outcome.value.name = "Error"
         /\ last.status = 300
              => last.outcome.value.message = "HTTP error! status: 300"
         /\ last.status = 500
              => last.outcome.value.message = "HTTP error! status: 500"
         /\ last.outcome.value.message
              = "HTTP error! status: " \o IntToString(last.status)
         /\ ~last.jsonInvoked
         /\ last.kind = "caller" => last.state = "rejected"

\* C3 witness: a 500 response was rejected without reading its body.
C3_Witness ==
    /\ last.requested
    /\ last.status = 500
    /\ last.outcome.state = "rejected"
    /\ ~last.jsonInvoked

\* The body of each value the server sends.
ServerBodies == [i \in DOMAIN ServerValues |-> JSONStringify(ServerValues[i])]

\* C4 as stated: every response with a status in [200,299] makes
\* makeAuthenticatedRequest resolve.
C4_SuccessAlwaysResolves ==
    (last.requested /\ last.status \in 200..299)
      => last.outcome.state = "fulfilled"

\* C4 amended: for a status in [200,299] the body is parsed; when it is the
\* JSON text of a value, makeAuthenticatedRequest resolves to that value,
\* unchanged; when it is no JSON text, it rejects with the SyntaxError.
C4_SuccessReturnsParsedBody ==
    (last.requested /\ last.status \in 200..299)
      => /\ last.jsonInvoked
         /\ \A i \in DOMAIN ServerValues :
               last.body = ServerBodies[i]
                 => /\ last.outcome.state = "fulfilled"
                    /\ last.outcome.value = ServerValues[i]
                    /\ last.kind = "caller" => last.state = "fulfilled"
         /\ last.body \in MalformedBodies
              => /\ last.outcome.state = "rejected"
                 /\ last.outcome.value.name = "SyntaxError"
         /\ \/ last.body \in MalformedBodies
            \/ \E i \in DOMAIN ServerValues : last.body = ServerBodies[i]

\* C4 witness: a 299 response carrying the pricing plans resolved to them.
C4_Witness ==
    /\ last.requested
    /\ last.kind = "caller"
    /\ last.status = 299
    /\ last.outcome.state = "fulfilled"
    /\ last.outcome.value = PricingPlans

\* C5 as stated: every request on the wire has Content-Type:
\* application/json.
C5_AlwaysJsonContentType ==
    \A c \in OnWire :
        /\ "Content-Type" \in DOMAIN c.req.headers
        /\ c.req.headers["Content-Type"] = "application/json"

\* C5 amended: every request has a Content-Type header; it is
\* application/json unless the caller's options.headers holds a Content-Type
\* entry, whose value is then the one sent.
C5_JsonContentTypeByDefault ==
    \A c \in OnWire :
        /\ "Content-Type" \in DOMAIN c.req.headers
        /\ c.req.headers["Content-Type"] =
              IF "Content-Type" \in DOMAIN OptionHeaders(c.options)
              THEN OptionHeaders(c.options)["Content-Type"]
              ELSE "application/json"

\* C5 witness: a request whose caller set text/plain and a POST of a wrapper
\* with the default are on the wire together.
C5_Witness ==
    /\ \E c \in OnWire :
          /\ "Content-Type" \in DOMAIN OptionHeaders(c.options)
          /\ c.req.headers["Content-Type"] = "text/plain"
    /\ \E c \in OnWire :
          /\ c.req.method = "POST"
          /\ c.req.headers["Content-Type"] = "application/json"

\* C6: no step changes a request that is on the wire, a step that changes
\* the token leaves the pending operations as they are, and a request
\* dispatched later is built from the token stored at its dispatch.
C6_InFlightKeepsToken ==
    [][/\ \A c \in OnWire : \A d \in inflight' :
             (d.id = c.id /\ d.ph = "fetch") => d.req = c.req
       /\ (authToken' # authToken \/ setCalled' # setCalled)
            => inflight' = inflight
       /\ \A c \in inflight' \ inflight :
             c.ph = "fetch"
               => IF authToken'.t = "string" /\ authToken'.v # ""
                  THEN /\ "Authorization" \in DOMAIN c.req.headers
                       /\ c.req.headers["Authorization"]
                            = "Bearer " \o authToken'.v
                  ELSE CallersAuthorization(c)
      ]_vars

\* C6 witness: a request dispatched under tokA is still on the wire, as
\* dispatched, after setAuthToken("tokB").
C6_Witness ==
    /\ setCalled
    /\ authToken = Str("tokB")
    /\ \E c \in OnWire :
          /\ "Authorization" \in DOMAIN c.req.headers
          /\ c.req.headers["Authorization"] = "Bearer tokA"

\* The operations of the effects a settled handler had.
Ops(l) == {l.effects[i].op : i \in DOMAIN l.effects}

\* makeAuthenticatedRequest resolved to a value whose success is truthy.
SucceededTruthy(l) ==
    /\ l.outcome.state = "fulfilled"
    /\ ~PropThrows(l.outcome.value)
    /\ Truthy(GetProp(l.outcome.value, "success"))

\* window.localStorage is what it was before the handler, except that the
\* session key holds v.
StoredSession(v) ==
    /\ DOMAIN localStorage = DOMAIN last.storageBefore \cup {SessionKey}
    /\ localStorage[SessionKey] = v
    /\ \A k \in DOMAIN last.storageBefore \ {SessionKey} :
          localStorage[k] = last.storageBefore[k]

\* handleSubscriptionPurchase(p) puts POST /subscriptions/create with the
\* body {"plan": p} on the wire.
SubscriptionRequest ==
    \A c \in OnWire :
        c.kind = "handleSubscriptionPurchase"
          => /\ c.req.method = "POST"
             /\ c.req.url = "http://localhost:8000/subscriptions/create"
             /\ c.req.body
                  = <<P("{"), TStr("plan"), P(":"), TStr(c.arg.v), P("}")>>
             /\ JSONParse(c.req.body).val = Obj("plan" :> c.arg)

\* C7 as stated: the checkout is opened and the session_id stored exactly
\* when the response is a 2xx whose success is true; otherwise nothing is
\* opened and the stored key is as before.
C7_OpensOnlyOnSuccessTrue ==
    /\ SubscriptionRequest
    /\ last.kind = "handleSubscriptionPurchase"
         => IF /\ last.status \in 200..299
               /\ last.outcome.state = "fulfilled"
               /\ GetProp(last.outcome.value, "success") = Bool(TRUE)
            THEN /\ WindowOpen(GetProp(last.outcome.value, "checkout_url"))
                      = last.effects[1]
                 /\ StoredSession(JSToString(GetProp(last.outcome.value,
                                                     "session_id")))
            ELSE /\ "window.open" \notin Ops(last)
                 /\ localStorage = last.storageBefore

\* C7 amended: the request is POST /subscriptions/create with body
\* {"plan": p}; when the response is a 2xx whose JSON body has a truthy
\* success (true, or another truthy value such as 1), the handler opens the
\* body's checkout_url and stores its session_id, as localStorage stores any
\* value: in string form, under stripe_session_id; when the request fails or
\* success is falsy or absent, nothing is opened and the storage is left as
\* it was.
C7_OpensOnTruthySuccess ==
    /\ SubscriptionRequest
    /\ last.kind = "handleSubscriptionPurchase"
         => IF SucceededTruthy(last)
            THEN /\ last.status \in 200..299
                 /\ last.effects =
                      <<WindowOpen(GetProp(last.outcome.value,
                                           "checkout_url")),
                        Effect("localStorage.setItem",
                               JSToString(GetProp(last.outcome.value,
                                                  "session_id")))>>
                 /\ StoredSession(JSToString(GetProp(last.outcome.value,
                                                     "session_id")))
            ELSE /\ "window.open" \notin Ops(last)
                 /\ "localStorage.setItem" \notin Ops(last)
                 /\ localStorage = last.storageBefore

\* C7 witness: a subscription checkout answered with session cs_1 opened
\* its checkout page and replaced the session stored before.
C7_Witness ==
    /\ last.kind = "handleSubscriptionPurchase"
    /\ last.status = 200
    /\ last.outcome.state = "fulfilled"
    /\ last.outcome.value = Checkout(Bool(TRUE), "cs_1")
    /\ last.effects[1] = Effect("window.open", "https://pay.example/cs_1")
    /\ last.storageBefore = (SessionKey :> "cs_0")
    /\ localStorage = (SessionKey :> "cs_1")

\* handlePaymentSuccess puts GET /subscriptions/status on the wire.
StatusRequest ==
    \A c \in OnWire :
        c.kind = "handlePaymentSuccess"
          => /\ c.req.method = "GET"
             /\ c.req.url = "http://localhost:8000/subscriptions/status"

\* C8 as stated: with a session_id parameter in the URL the status is
\* fetched and the stored key is gone when the handler completes; without
\* one there is no request and the storage is as before.
C8_ClearsWheneverParameter ==
    /\ StatusRequest
    /\ last.kind = "handlePaymentSuccess"
         => IF last.arg.t = "string"
            THEN /\ last.requested
                 /\ SessionKey \notin DOMAIN localStorage
            ELSE /\ ~last.requested
                 /\ localStorage = last.storageBefore

\* C8 amended: with a non-empty session_id parameter the status is fetched
\* (GET /subscriptions/status); when that request succeeds with a body other
\* than null the stored key is gone once the handler completes, and when it
\* fails (or the body is null) the storage is left as it was; without the
\* parameter, or with an empty one, there is no request and the storage is
\* left as it was.
C8_ClearsAfterSuccessfulStatus ==
    /\ StatusRequest
    /\ last.kind = "handlePaymentSuccess"
         => IF Truthy(last.arg)
            THEN /\ last.requested
                 /\ IF /\ last.outcome.state = "fulfilled"
                       /\ ~PropThrows(last.outcome.value)
                    THEN /\ SessionKey \notin DOMAIN localStorage
                         /\ DOMAIN localStorage
                              = DOMAIN last.storageBefore \ {SessionKey}
                    ELSE localStorage = last.storageBefore
            ELSE /\ ~last.requested
                 /\ last.effects = <<>>
                 /\ localStorage = last.storageBefore

\* C8 witness: the success page, opened with session_id=cs_1 while a session
\* was stored, fetched the status and the stored session is gone.
C8_Witness ==
    /\ last.kind = "handlePaymentSuccess"
    /\ last.arg = Str("cs_1")
    /\ last.requested
    /\ last.outcome.state = "fulfilled"
    /\ SessionKey \in DOMAIN last.storageBefore
    /\ SessionKey \notin DOMAIN localStorage

\* Effects that show a result to the user or record one.
DisplayOps ==
    {"window.open", "console.log", "localStorage.setItem",
     "localStorage.removeItem"}

\* The handler that settled last had its request fail.
RequestFailed(l) ==
    /\ l.kind \in Handlers
    /\ l.requested
    /\ l.outcome.state = "rejected"

\* C9 as stated: a handler whose request failed logs an error and shows an
\* alert, displays nothing and returns normally.
C9_EveryHandlerAlerts ==
    RequestFailed(last)
      => /\ "console.error" \in Ops(last)
         /\ "alert" \in Ops(last)
         /\ Ops(last) \cap DisplayOps = {}
         /\ last.state = "fulfilled"

\* C9 amended: a handler whose request failed (non-2xx status, transport
\* error, or a body that is no JSON) catches the failure, logs it with
\* console.error, issues no further request, displays no result, leaves the
\* storage as it was and returns normally; handleSubscriptionPurchase and
\* handleCreditPurchase also show an alert, displayPricingPlans and
\* handlePaymentSuccess show none.
C9_HandlersCatchFailures ==
    [][(last'.id # last.id /\ RequestFailed(last'))
         => /\ Len(last'.effects) >= 1
            /\ last'.effects[1].op = "console.error"
            /\ IF last'.kind \in {"handleSubscriptionPurchase",
                                  "handleCreditPurchase"}
               THEN /\ Len(last'.effects) = 2
                    /\ last'.effects[2].op = "alert"
               ELSE Len(last'.effects) = 1
            /\ last'.state = "fulfilled"
            /\ localStorage' = localStorage
            /\ nCalls' = nCalls
            /\ inflight' \subseteq inflight
      ]_vars

\* C9 witness: a 500 from /pricing/plans left displayPricingPlans with one
\* console.error and nothing else.
C9_Witness ==
    /\ last.kind = "displayPricingPlans"
    /\ last.status = 500
    /\ last.state = "fulfilled"
    /\ Len(last.effects) = 1
    /\ last.effects[1].op = "console.error"

\* C10: when a checkout handler (subscription or credits) completes with a
\* truthy success, the session key holds the session_id of its response, in
\* string form, whatever was stored before: the handler that completes last
\* decides the stored session, not the one started last.
C10_LastCompletedCheckoutWins ==
    (last.kind \in {"handleSubscriptionPurchase", "handleCreditPurchase"}
       /\ SucceededTruthy(last))
      => StoredSession(JSToString(GetProp(last.outcome.value, "session_id")))

\* C10 witness: two checkouts were started; the one started last completed
\* first and stored cs_2; the one started first completed last, and its
\* cs_1 replaced cs_2.
C10_Witness ==
    /\ nCalls = 2
    /\ inflight = {}
    /\ last.id = 1
    /\ last.kind \in {"handleSubscriptionPurchase", "handleCreditPurchase"}
    /\ SucceededTruthy(last)
    /\ SessionKey \in DOMAIN last.storageBefore
    /\ last.storageBefore[SessionKey] = "cs_2"
    /\ localStorage[SessionKey] = "cs_1"

====
